---- MODULE Spec2Model ----
(***************************************************************************)
(* near-sign-verify: the token signing / verification pipeline.            *)
(*                                                                         *)
(* Strings are modelled as sequences of byte values (their UTF-8 bytes),   *)
(* an optional value as a sequence of length 0 (absent: undefined / null)  *)
(* or 1 (present), and the SHA-256 / Ed25519 / base64 primitives           *)
(* symbolically (injective constructors).                                  *)
(***************************************************************************)
EXTENDS Integers, Sequences, FiniteSets, TLC

(* ------------------------------------------------------------------ *)
(* Optional values                                                     *)
(* ------------------------------------------------------------------ *)
None == <<>>

Some(v) == <<v>>

IsSome(o) == Len(o) = 1

Get(o) == o[1]

(* JavaScript truthiness of an optional string: undefined, null and "" are falsy *)
Truthy(o) == IsSome(o) /\ Get(o) # <<>>

(* ------------------------------------------------------------------ *)
(* Text helpers                                                        *)
(* ------------------------------------------------------------------ *)
EndsWith(s, suffix) ==
    /\ Len(s) >= Len(suffix)
    /\ SubSeq(s, Len(s) - Len(suffix) + 1, Len(s)) = suffix

IsDigit(b) == b >= 48 /\ b <= 57

IsSpace(b) == b = 32 \/ (b >= 9 /\ b <= 13)

RECURSIVE StripLeadingZeros(_)
(* String.prototype.replace(/^0+/, "") *)
StripLeadingZeros(s) ==
    IF s # <<>> /\ Head(s) = 48 THEN StripLeadingZeros(Tail(s)) ELSE s

RECURSIVE SkipSpaces(_)
SkipSpaces(s) ==
    IF s # <<>> /\ IsSpace(Head(s)) THEN SkipSpaces(Tail(s)) ELSE s

RECURSIVE DigitRun(_, _)
(* value of the longest prefix of decimal digits of s, accumulated onto acc *)
DigitRun(s, acc) ==
    IF s # <<>> /\ IsDigit(Head(s))
    THEN DigitRun(Tail(s), acc * 10 + (Head(s) - 48))
    ELSE acc

(* parseInt(str, 10): leading white space is skipped, an optional sign is  *)
(* read, then the longest run of digits; NaN when that run is empty.       *)
ParseInt(str) ==
    LET s0 == SkipSpaces(str)
        neg == s0 # <<>> /\ Head(s0) = 45
        s1 == IF s0 # <<>> /\ (Head(s0) = 45 \/ Head(s0) = 43) THEN Tail(s0) ELSE s0
    IN  IF s1 = <<>> \/ ~IsDigit(Head(s1))
        THEN [nan |-> TRUE, val |-> 0]
        ELSE [nan |-> FALSE,
              val |-> IF neg THEN 0 - DigitRun(s1, 0) ELSE DigitRun(s1, 0)]

RECURSIVE DecimalDigits(_)
(* Number.prototype.toString() of a non-negative integer *)
DecimalDigits(n) ==
    IF n < 10 THEN <<48 + n>> ELSE Append(DecimalDigits(n \div 10), 48 + (n % 10))

RECURSIVE PadStart(_, _, _)
(* String.prototype.padStart(width, fill) with a one-character fill *)
PadStart(s, width, fill) ==
    IF Len(s) >= width THEN s ELSE PadStart(<<fill>> \o s, width, fill)

(* ------------------------------------------------------------------ *)
(* Nonce Manager  (src/src/utils/nonce.ts)                             *)
(* ------------------------------------------------------------------ *)
DEFAULT_MAX_AGE == 24 * 60 * 60 * 1000

NONCE_LENGTH == 32

TIMESTAMP_LENGTH == 16

(* generateNonce(): 16 bytes of zero-padded decimal Date.now(), then 16 random bytes *)
generateNonce(now, randomBytes) ==
    LET timestamp == DecimalDigits(now)
        timestampBytes == PadStart(timestamp, TIMESTAMP_LENGTH, 48)
    IN  SubSeq(timestampBytes, 1, TIMESTAMP_LENGTH) \o randomBytes

(* validateNonce(nonce, maxAge = DEFAULT_MAX_AGE) at Date.now() = now:      *)
(* "ok" when it returns, otherwise the message of the Error it throws.     *)
validateNonce(nonce, maxAgeOpt, now) ==
    LET maxAge == IF IsSome(maxAgeOpt) THEN Get(maxAgeOpt) ELSE DEFAULT_MAX_AGE
    IN  IF Len(nonce) # NONCE_LENGTH THEN "Invalid nonce length"
        ELSE LET timestampBytes == SubSeq(nonce, 1, TIMESTAMP_LENGTH)
                 timestampStr == StripLeadingZeros(timestampBytes)
                 timestamp == ParseInt(timestampStr)
                 age == now - timestamp.val
             IN  IF timestamp.nan THEN "Invalid timestamp in nonce"
                 ELSE IF age < 0 THEN "Nonce timestamp is in the future"
                 ELSE IF age > maxAge THEN "Nonce has expired"
                 ELSE "ok"

(* ------------------------------------------------------------------ *)
(* Canonical Payload Codec and Signature Engine (src/src/crypto)       *)
(* ------------------------------------------------------------------ *)
ED25519_PREFIX == "ed25519:"

(* TAG = 2147484061 = 2**31 + 413, as the four bytes setUint32(0, tag, true) writes *)
TAG == <<157, 1, 0, 128>>

U32LE(n) == << n % 256, (n \div 256) % 256, (n \div 65536) % 256, (n \div 16777216) % 256 >>

BorshString(s) == U32LE(Len(s)) \o s

BorshOptionString(o) == IF IsSome(o) THEN <<1>> \o BorshString(Get(o)) ELSE <<0>>

(* borsh.serialize(signedPayloadBorshSchema, payload) *)
SerializeSignedPayload(payload) ==
    BorshString(payload.message) \o payload.nonce \o BorshString(payload.recipient)
        \o BorshOptionString(payload.callbackUrl)

(* SHA-256, collision free: a digest is identified with what was hashed *)
sha256(bytes) == [sha256 |-> bytes]

(* hashForSigning(tag, payload): the bytes that are hashed *)
BytesToHash(tag, payload) == tag \o SerializeSignedPayload(payload)

hashForSigning(tag, payload) == sha256(BytesToHash(tag, payload))

(* Ed25519 key pairs known to the model: seed -> base58 public key *)
Seeds == {"S1", "S2"}

PublicKeyBody(seed) == IF seed = "S1" THEN "PK1" ELSE "PK2"

(* base58 bodies that decode to a 32-byte Ed25519 point *)
WellFormedKeyBodies == {"PK1", "PK2"}

(* ed25519.sign(hash, seed), unforgeable: a signature names its key and digest *)
Ed25519Sign(hash, seed) == [signer |-> PublicKeyBody(seed), over |-> hash]

GarbageSignature == [signer |-> "none", over |-> sha256(<<>>)]

(* base64 text of a raw signature; okB64 = FALSE is text atob() rejects *)
Base64Of(rawSignature) == [okB64 |-> TRUE, raw |-> rawSignature]

MalformedBase64 == [okB64 |-> FALSE, raw |-> GarbageSignature]

(* verifySignature(payloadHash, signatureBytes, publicKeyString):          *)
(* "ok" when it resolves to true, otherwise the kind of Error thrown.     *)
verifySignature(payloadHash, signatureBytes, publicKey) ==
    IF publicKey.prefix = ED25519_PREFIX
    THEN IF publicKey.body \notin WellFormedKeyBodies THEN "Malformed public key"
         ELSE IF signatureBytes.signer = publicKey.body /\ signatureBytes.over = payloadHash
              THEN "ok"
              ELSE "Ed25519 signature verification failed."
    ELSE "Unsupported public key type"

(* ------------------------------------------------------------------ *)
(* Token Codec (src/src/auth/createAuthToken.ts, parseAuthToken.ts)    *)
(* ------------------------------------------------------------------ *)
(* An auth token string: base64 text (okB64) of Borsh bytes that the      *)
(* NearAuthDataSchema can (okBorsh) or cannot deserialize.                *)
createAuthToken(authData) == [okB64 |-> TRUE, okBorsh |-> TRUE, data |-> authData]

(* parseAuthToken(authToken): the record, or the Error it throws *)
parseAuthToken(authToken) ==
    IF ~authToken.okB64
    THEN [ok |-> FALSE, error |-> "Invalid auth token: base64", data |-> authToken.data]
    ELSE IF ~authToken.okBorsh
    THEN [ok |-> FALSE, error |-> "Invalid auth token: deserialize", data |-> authToken.data]
    ELSE [ok |-> TRUE, error |-> "", data |-> authToken.data]

(* ------------------------------------------------------------------ *)
(* Token Codec on bytes: NearAuthDataSchema (src/src/schemas.ts 18-26)  *)
(* ------------------------------------------------------------------ *)
(* A record of byte strings, as createAuthToken is handed it; state is   *)
(* the TokenRecord field the schema does not list.                       *)
NoRecord ==
    [ accountId |-> <<>>, publicKey |-> <<>>, signature |-> <<>>, message |-> <<>>,
      nonce |-> <<>>, recipient |-> <<>>, callbackUrl |-> None, state |-> None ]

(* NearAuthDataSchema.serialize(authData): the schema's fields in order; *)
(* a property that is not a field of the schema is not written           *)
NearAuthDataSerialize(authData) ==
    BorshString(authData.accountId) \o BorshString(authData.publicKey)
        \o BorshString(authData.signature) \o BorshString(authData.message)
        \o authData.nonce \o BorshString(authData.recipient)
        \o BorshOptionString(authData.callbackUrl)

(* base64 text: the bytes it encodes, or text that is not base64 *)
base64Encode(bytes) == [okB64 |-> TRUE, bytes |-> bytes]

(* a read of the deserializer: the value, and the offset of the next byte; *)
(* a read past the end of the buffer throws                                *)
ReadFails == [ok |-> FALSE, value |-> <<>>, next |-> 0]

ReadBytes(buffer, at, n) ==
    IF at + n - 1 > Len(buffer) THEN ReadFails
    ELSE [ok |-> TRUE, value |-> SubSeq(buffer, at, at + n - 1), next |-> at + n]

ReadString(buffer, at) ==
    LET len == ReadBytes(buffer, at, 4)
        n == len.value[1] + 256 * len.value[2] + 65536 * len.value[3]
                + 16777216 * len.value[4]
    IN  IF ~len.ok THEN ReadFails ELSE ReadBytes(buffer, len.next, n)

(* b.option(b.string()): a flag byte, then the string when the flag is set *)
ReadOptionString(buffer, at) ==
    LET flag == ReadBytes(buffer, at, 1)
        some == ReadString(buffer, flag.next)
    IN  IF ~flag.ok THEN [ok |-> FALSE, value |-> None, next |-> 0]
        ELSE IF flag.value[1] = 0 THEN [ok |-> TRUE, value |-> None, next |-> flag.next]
        ELSE IF ~some.ok THEN [ok |-> FALSE, value |-> None, next |-> 0]
        ELSE [ok |-> TRUE, value |-> Some(some.value), next |-> some.next]

(* NearAuthDataSchema.deserialize(serialized) *)
NearAuthDataDeserialize(serialized) ==
    LET account_id == ReadString(serialized, 1)
        public_key == ReadString(serialized, account_id.next)
        signature == ReadString(serialized, public_key.next)
        message == ReadString(serialized, signature.next)
        nonce == ReadBytes(serialized, message.next, NONCE_LENGTH)
        recipient == ReadString(serialized, nonce.next)
        callback_url == ReadOptionString(serialized, recipient.next)
    IN  IF ~account_id.ok \/ ~public_key.ok \/ ~signature.ok \/ ~message.ok
           \/ ~nonce.ok \/ ~recipient.ok \/ ~callback_url.ok
        THEN [ok |-> FALSE, value |-> NoRecord]
        ELSE [ok |-> TRUE,
              value |-> [ accountId |-> account_id.value, publicKey |-> public_key.value,
                          signature |-> signature.value, message |-> message.value,
                          nonce |-> nonce.value, recipient |-> recipient.value,
                          callbackUrl |-> callback_url.value, state |-> None ]]

(* createAuthToken(authData), createAuthToken.ts lines 10-13 *)
CreateAuthToken(authData) == base64Encode(NearAuthDataSerialize(authData))

(* what parseAuthToken throws: always an Error "Invalid auth token: <cause>" *)
ParseThrows(cause, record) ==
    [ok |-> FALSE, error |-> "Invalid auth token", cause |-> cause, data |-> record]

(* parseAuthToken rethrowing what its try block threw, unwrapped *)
ParseAuthToken_Rethrow(authToken) ==
    IF ~authToken.okB64
    THEN [ok |-> FALSE, error |-> "Unknown letter", cause |-> "", data |-> NoRecord]
    ELSE LET deserialized == NearAuthDataDeserialize(authToken.bytes)
         IN  IF ~deserialized.ok
             THEN [ok |-> FALSE, error |-> "RangeError", cause |-> "", data |-> NoRecord]
             ELSE [ok |-> TRUE, error |-> "", cause |-> "", data |-> deserialized.value]

(* parseAuthToken(authToken), parseAuthToken.ts lines 11-29 *)
ParseAuthToken(authToken) ==
    IF ~authToken.okB64 THEN ParseThrows("base64.decode", NoRecord)
    ELSE LET deserialized == NearAuthDataDeserialize(authToken.bytes)
         IN  IF ~deserialized.ok
             THEN ParseThrows("Offset is outside the bounds of the DataView", NoRecord)
             ELSE [ok |-> TRUE, error |-> "", cause |-> "", data |-> deserialized.value]

(* ------------------------------------------------------------------ *)
(* Caller-supplied predicates and parsers                              *)
(* ------------------------------------------------------------------ *)
Predicates == {"acceptAll", "acceptNone"}

Apply(predicate, value) == predicate = "acceptAll"

Parsers == {"identity", "wrap", "throws"}

(* ------------------------------------------------------------------ *)
(* verify  (src/src/auth/verify.ts)                                     *)
(* ------------------------------------------------------------------ *)
NoOptions ==
    [ validateNonce |-> None, nonceMaxAge |-> None,
      expectedRecipient |-> None, validateRecipient |-> None,
      expectedState |-> None, validateState |-> None,
      expectedMessage |-> None, validateMessage |-> None,
      requireFullAccessKey |-> None, messageParser |-> None ]

NoError == [at |-> "", text |-> "", reason |-> "", expected |-> <<>>, actual |-> <<>>]

(* an Error thrown by verify: the step that threw, the message, the wrapped reason *)
Failure(step, message, why) ==
    [at |-> step, text |-> message, reason |-> why, expected |-> <<>>, actual |-> <<>>]

(* "N/A" and "undefined", as the mismatch messages render a missing side *)
NotApplicable == <<78, 47, 65>>

Undefined == <<117, 110, 100, 101, 102, 105, 110, 101, 100>>

(* an Error whose message interpolates the expected and the actual value: *)
(* "... Expected: '<expected ?? "N/A">', Custom validation: <failed |     *)
(* not provided>, Actual: '<actual>'."                                    *)
Mismatch(step, message, expectedOpt, predicate, actualText) ==
    [ at |-> step, text |-> message,
      reason |-> IF IsSome(predicate) THEN "failed" ELSE "not provided",
      expected |-> IF IsSome(expectedOpt) THEN Get(expectedOpt) ELSE NotApplicable,
      actual |-> actualText ]

(* the nonce step with the default check run after an accepting predicate too *)
NonceStep_AlsoDefault(options, signedNonce, now) ==
    LET r == validateNonce(signedNonce, options.nonceMaxAge, now)
    IN  IF IsSome(options.validateNonce) /\ ~Apply(Get(options.validateNonce), signedNonce)
        THEN Failure("nonce", "Custom nonce validation failed.", "")
        ELSE IF r # "ok" THEN Failure("nonce", "Default nonce validation failed", r)
        ELSE NoError

(* 1. Nonce validation: verify.ts lines 76-91 *)
NonceStep(options, signedNonce, now) ==
    IF IsSome(options.validateNonce)
    THEN IF ~Apply(Get(options.validateNonce), signedNonce)
         THEN Failure("nonce", "Custom nonce validation failed.", "")
         ELSE NoError
    ELSE LET r == validateNonce(signedNonce, options.nonceMaxAge, now)
         IN  IF r # "ok" THEN Failure("nonce", "Default nonce validation failed", r) ELSE NoError

(* 2. Recipient validation: verify.ts lines 93-117 *)
RecipientStep(options, signedRecipient) ==
    IF Truthy(options.expectedRecipient) \/ IsSome(options.validateRecipient)
    THEN LET byValue == Truthy(options.expectedRecipient)
                          /\ signedRecipient = Get(options.expectedRecipient)
             byPredicate == IsSome(options.validateRecipient)
                          /\ Apply(Get(options.validateRecipient), signedRecipient)
             recipientValid == byValue \/ (~byValue /\ byPredicate)
         IN  IF ~recipientValid
             THEN Mismatch("recipient", "Recipient validation failed.",
                           options.expectedRecipient, options.validateRecipient,
                           signedRecipient)
             ELSE NoError
    ELSE NoError

(* 3. State validation: verify.ts lines 120-140 *)
StateStep(options, tokenState) ==
    IF Truthy(options.expectedState) \/ IsSome(options.validateState)
    THEN LET byValue == Truthy(options.expectedState) /\ tokenState = options.expectedState
             byPredicate == IsSome(options.validateState)
                          /\ Apply(Get(options.validateState), tokenState)
             stateValid == byValue \/ (~byValue /\ byPredicate)
         IN  IF ~stateValid
             THEN Mismatch("state", "State validation failed.",
                           options.expectedState, options.validateState,
                           IF IsSome(tokenState) THEN Get(tokenState) ELSE Undefined)
             ELSE NoError
    ELSE NoError

(* verifyPublicKeyOwner: the URL it fetches, verify.ts lines 17-22 *)
TESTNET_SUFFIX == <<46, 116, 101, 115, 116, 110, 101, 116>>

(* the lookup always asking for keys of any access level *)
OwnerLookupUrl_AlwaysAll(accountId, publicKey, requireFullAccessKey) ==
    [ baseUrl |-> IF EndsWith(accountId, TESTNET_SUFFIX)
                  THEN "https://test.api.fastnear.com"
                  ELSE "https://api.fastnear.com",
      publicKey |-> publicKey,
      pathSuffix |-> "/all" ]

(* the lookup choosing the test network for any account id that contains *)
(* ".testnet"                                                            *)
OwnerLookupUrl_Includes(accountId, publicKey, requireFullAccessKey) ==
    [ baseUrl |-> IF \E i \in 1..Len(accountId) :
                        /\ i + Len(TESTNET_SUFFIX) - 1 <= Len(accountId)
                        /\ SubSeq(accountId, i, i + Len(TESTNET_SUFFIX) - 1) = TESTNET_SUFFIX
                  THEN "https://test.api.fastnear.com"
                  ELSE "https://api.fastnear.com",
      publicKey |-> publicKey,
      pathSuffix |-> IF requireFullAccessKey THEN "" ELSE "/all" ]

OwnerLookupUrl(accountId, publicKey, requireFullAccessKey) ==
    [ baseUrl |-> IF EndsWith(accountId, TESTNET_SUFFIX)
                  THEN "https://test.api.fastnear.com"
                  ELSE "https://api.fastnear.com",
      publicKey |-> publicKey,
      pathSuffix |-> IF requireFullAccessKey THEN "" ELSE "/all" ]

(* the ownership check reporting an account that is not listed as an API failure *)
OwnerCheckResult_Collapsed(accountId, response) ==
    IF response.kind = "accountIds" /\ response.ok /\ accountId \in response.account_ids
    THEN [success |-> TRUE, apiFailure |-> FALSE]
    ELSE [success |-> FALSE, apiFailure |-> TRUE]

(* the ownership check taking a body without an account_ids array for a yes *)
OwnerCheckResult_Lenient(accountId, response) ==
    IF response.kind = "networkError" THEN [success |-> FALSE, apiFailure |-> TRUE]
    ELSE IF ~response.ok THEN [success |-> FALSE, apiFailure |-> TRUE]
    ELSE IF response.kind = "badJson" THEN [success |-> FALSE, apiFailure |-> TRUE]
    ELSE IF response.kind = "accountIds"
    THEN IF accountId \in response.account_ids
         THEN [success |-> TRUE, apiFailure |-> FALSE]
         ELSE [success |-> FALSE, apiFailure |-> FALSE]
    ELSE [success |-> TRUE, apiFailure |-> FALSE]

(* verifyPublicKeyOwner: what it makes of the settled fetch, lines 24-41 *)
OwnerCheckResult(accountId, response) ==
    IF response.kind = "networkError" THEN [success |-> FALSE, apiFailure |-> TRUE]
    ELSE IF ~response.ok THEN [success |-> FALSE, apiFailure |-> TRUE]
    ELSE IF response.kind = "badJson" THEN [success |-> FALSE, apiFailure |-> TRUE]
    ELSE IF response.kind = "accountIds"
    THEN IF accountId \in response.account_ids
         THEN [success |-> TRUE, apiFailure |-> FALSE]
         ELSE [success |-> FALSE, apiFailure |-> FALSE]
    ELSE [success |-> FALSE, apiFailure |-> TRUE]

(* the payload rebuilt with the token's state appended to the message *)
PayloadForVerification_WithState(tokenData, options) ==
    [ message |-> tokenData.message
                    \o (IF IsSome(tokenData.state) THEN Get(tokenData.state) ELSE <<>>),
      nonce |-> tokenData.nonce,
      recipient |-> tokenData.recipient,
      callbackUrl |-> IF Truthy(tokenData.callbackUrl) THEN tokenData.callbackUrl ELSE None ]

(* the payload rebuilt with the message the caller expects in place of the *)
(* token's                                                                 *)
PayloadForVerification_FromOptions(tokenData, options) ==
    [ message |-> IF IsSome(options.expectedMessage)
                  THEN Get(options.expectedMessage) ELSE tokenData.message,
      nonce |-> tokenData.nonce,
      recipient |-> tokenData.recipient,
      callbackUrl |-> IF Truthy(tokenData.callbackUrl) THEN tokenData.callbackUrl ELSE None ]

(* 5. the payload rebuilt for the signature check, verify.ts lines 160-165; *)
(* the caller's options are in scope there and are not read               *)
PayloadForVerification(tokenData, options) ==
    [ message |-> tokenData.message,
      nonce |-> tokenData.nonce,
      recipient |-> tokenData.recipient,
      callbackUrl |-> IF Truthy(tokenData.callbackUrl) THEN tokenData.callbackUrl ELSE None ]

(* 6. message parsing, verify.ts lines 180-208 (the token schema carries   *)
(* no original_message_representation, so the message itself is parsed)    *)
ParseMessage(options, message) ==
    IF IsSome(options.messageParser)
    THEN IF Get(options.messageParser) = "throws"
         THEN [ok |-> FALSE, value |-> [wrapped |-> FALSE, text |-> message]]
         ELSE [ok |-> TRUE,
               value |-> [wrapped |-> Get(options.messageParser) = "wrap", text |-> message]]
    ELSE [ok |-> TRUE, value |-> [wrapped |-> FALSE, text |-> message]]

(* the VerificationResult returned, verify.ts lines 210-216 *)
VerificationResult(tokenData, parsedMessage) ==
    [ accountId |-> tokenData.accountId,
      publicKey |-> tokenData.publicKey,
      message |-> parsedMessage,
      callbackUrl |-> IF Truthy(tokenData.callbackUrl) THEN tokenData.callbackUrl ELSE None,
      state |-> IF Truthy(tokenData.state) THEN tokenData.state ELSE None ]

(* ------------------------------------------------------------------ *)
(* sign  (src/src/types.ts lines 166-327)                               *)
(* ------------------------------------------------------------------ *)
PublicKeyString(seed) == [prefix |-> ED25519_PREFIX, body |-> PublicKeyBody(seed)]

(* serializePayload(payload) with the NearAuthPayloadSchema: tag, message, *)
(* nonce, receiver, callback_url                                          *)
serializePayload(payload) ==
    payload.tag \o BorshString(payload.message) \o payload.nonce
        \o BorshString(payload.receiver) \o BorshOptionString(payload.callback_url)

hashPayload(bytes) == sha256(bytes)

(* callbackUrl || null *)
OrNull(o) == IF Truthy(o) THEN o ELSE None

EmptyAuthData ==
    [ accountId |-> <<>>, publicKey |-> [prefix |-> "", body |-> ""],
      signature |-> MalformedBase64, message |-> <<>>, nonce |-> <<>>,
      recipient |-> <<>>, callbackUrl |-> None, state |-> None ]

SignThrows(why) == [ok |-> FALSE, error |-> why, token |-> createAuthToken(EmptyAuthData)]

(* _signWithKeyPair, types.ts lines 191-240 *)
SignWithKeyPair(signer, signerId, params) ==
    LET payloadToSerialize ==
            [ tag |-> TAG, message |-> params.message, nonce |-> params.nonce,
              receiver |-> params.recipient, callback_url |-> OrNull(params.callbackUrl) ]
        payloadHash == hashPayload(serializePayload(payloadToSerialize))
        signedResult == Ed25519Sign(payloadHash, signer.seed)
        nearAuthDataObject ==
            [ accountId |-> signerId,
              publicKey |-> PublicKeyString(signer.seed),
              signature |-> Base64Of(signedResult),
              message |-> params.message,
              nonce |-> params.nonce,
              recipient |-> params.recipient,
              callbackUrl |-> OrNull(params.callbackUrl),
              state |-> None ]
    IN  [ok |-> TRUE, error |-> "", token |-> createAuthToken(nearAuthDataObject)]

(* a NEP-413 wallet: signs the payload made of exactly the parameters it is given *)
WalletSignMessage(wallet, signParams) ==
    [ accountId |-> wallet.account,
      publicKey |-> PublicKeyString(wallet.seed),
      signature |-> Ed25519Sign(hashForSigning(TAG, signParams), wallet.seed) ]

(* _signWithWallet, types.ts lines 242-281 *)
SignWithWallet(wallet, params) ==
    LET walletResult ==
            WalletSignMessage(wallet,
                [ message |-> params.message, nonce |-> params.nonce,
                  recipient |-> params.recipient, callbackUrl |-> None ])
        nearAuthDataObject ==
            [ accountId |-> walletResult.accountId,
              publicKey |-> walletResult.publicKey,
              signature |-> Base64Of(walletResult.signature),
              message |-> params.message,
              nonce |-> params.nonce,
              recipient |-> params.recipient,
              callbackUrl |-> OrNull(params.callbackUrl),
              state |-> None ]
    IN  [ok |-> TRUE, error |-> "", token |-> createAuthToken(nearAuthDataObject)]

(* sign(options), types.ts lines 304-327, at Date.now() = now *)
sign(options, now, randomBytes) ==
    LET currentNonce == IF IsSome(options.nonce) THEN Get(options.nonce)
                        ELSE generateNonce(now, randomBytes)
        internalParams ==
            [ message |-> options.message, recipient |-> options.recipient,
              nonce |-> currentNonce, callbackUrl |-> options.callbackUrl ]
    IN  IF options.signer.kind = "wallet"
        THEN SignWithWallet(options.signer, internalParams)
        ELSE IF options.signer.kind = "keypair"
        THEN IF ~Truthy(options.accountId)
             THEN SignThrows("accountId is required when using a KeyPair signer.")
             ELSE SignWithKeyPair(options.signer, Get(options.accountId), internalParams)
        ELSE SignThrows("Invalid signer")

(* ------------------------------------------------------------------ *)
(* The ownership oracle (FastNEAR key registry), an external service    *)
(* ------------------------------------------------------------------ *)
AliceNear == <<97, 46, 110, 101, 97, 114>>

BobTestnet == <<98, 46>> \o Tail(TESTNET_SUFFIX)

(* "a.testnet.n": ".testnet" inside the account id, not at its end *)
TestnetInside == <<97>> \o TESTNET_SUFFIX \o <<46, 110>>

(* public key strings the registry also knows: a secp256k1 key of a.near, and *)
(* an "ed25519:" string whose body is not the base58 of a 32-byte key         *)
Secp256k1Key == [prefix |-> "secp256k1:", body |-> "PK1"]

MalformedKey == [prefix |-> ED25519_PREFIX, body |-> "notbase58"]

(* PK1 is a full-access key of a.near (mainnet) and of b.testnet (testnet); *)
(* PK2 is a function-call access key of a.near.                            *)
RegisteredOwners(url) ==
    IF url.publicKey = PublicKeyString("S1")
    THEN IF url.baseUrl = "https://api.fastnear.com" THEN {AliceNear} ELSE {BobTestnet}
    ELSE IF url.publicKey = PublicKeyString("S2")
    THEN IF url.baseUrl = "https://api.fastnear.com" /\ url.pathSuffix = "/all"
         THEN {AliceNear} ELSE {}
    ELSE IF url.publicKey \in {Secp256k1Key, MalformedKey}
    THEN IF url.baseUrl = "https://api.fastnear.com" THEN {AliceNear} ELSE {}
    ELSE {}

(* every way a fetch(url) may settle *)
Responses(url) ==
    { [kind |-> "networkError", ok |-> FALSE, account_ids |-> {}],
      [kind |-> "httpError", ok |-> FALSE, account_ids |-> {}],
      [kind |-> "badJson", ok |-> TRUE, account_ids |-> {}],
      [kind |-> "badShape", ok |-> TRUE, account_ids |-> {}],
      [kind |-> "accountIds", ok |-> TRUE, account_ids |-> RegisteredOwners(url)] }

(* ------------------------------------------------------------------ *)
(* State                                                               *)
(* ------------------------------------------------------------------ *)
VARIABLES
    token,       \* the auth token string in transit: None or Some(token)
    signedWith,  \* the sign() options and clock reading that produced it (None if none)
    tampered,    \* the fields of the token changed in transit
    calls,       \* the verify invocations, by caller
    probe,       \* a single application of validateNonce: its inputs and result
    codec        \* a single record taken through createAuthToken and parseAuthToken

vars == <<token, signedWith, tampered, calls, probe, codec>>

Callers == {"v1", "v2"}

NoUrl == [baseUrl |-> "", publicKey |-> [prefix |-> "", body |-> ""], pathSuffix |-> ""]

NoResult ==
    [ accountId |-> <<>>, publicKey |-> [prefix |-> "", body |-> ""],
      message |-> [wrapped |-> FALSE, text |-> <<>>], callbackUrl |-> None, state |-> None ]

NoResponse == [kind |-> "none", ok |-> FALSE, account_ids |-> {}]

IdleCall ==
    [ pc |-> "idle",
      authTokenString |-> createAuthToken(EmptyAuthData),
      options |-> NoOptions,
      now |-> 0,
      tokenData |-> EmptyAuthData,
      steps |-> <<>>,
      url |-> NoUrl,
      response |-> NoResponse,
      fetchCalls |-> 0, hashCalls |-> 0, verifySignatureCalls |-> 0,
      bytesHashed |-> None,
      outcome |-> "none", error |-> NoError, result |-> NoResult ]

NoProbe == [ts |-> 0, nonce |-> <<>>, maxAge |-> None, now |-> 0, result |-> "none"]

NoCodec ==
    [ stage |-> "none", record |-> NoRecord, authToken |-> base64Encode(<<>>),
      corrupted |-> FALSE, parsed |-> ParseThrows("", NoRecord) ]

Init ==
    /\ token = None
    /\ signedWith = None
    /\ tampered = {}
    /\ calls = [c \in Callers |-> IdleCall]
    /\ probe = NoProbe
    /\ codec = NoCodec

(* ------------------------------------------------------------------ *)
(* Operations                                                          *)
(* ------------------------------------------------------------------ *)
Idle == \A c \in Callers : calls[c].pc = "idle"

(* a client calls sign(options), for some options of signOptionsSet *)
Sign(signOptionsSet, now, randomBytes) ==
    /\ token = None
    /\ Idle
    /\ \E signOptions \in signOptionsSet :
          LET r == sign(signOptions, now, randomBytes)
          IN  /\ r.ok
              /\ token' = Some(r.token)
              /\ signedWith' = Some([options |-> signOptions, now |-> now])
    /\ UNCHANGED <<tampered, calls, probe, codec>>

(* the token is altered between the signer and the verifier, by one of changes *)
Tamper(changes) ==
    /\ IsSome(token)
    /\ Idle
    /\ tampered = {}
    /\ \E change \in changes :
       LET t == Get(token)
           t2 == IF change.field = "base64" THEN [t EXCEPT !.okB64 = FALSE]
                 ELSE IF change.field = "borsh" THEN [t EXCEPT !.okBorsh = FALSE]
                 ELSE IF change.field = "signature"
                 THEN [t EXCEPT !.data.signature = change.signature]
                 ELSE IF change.field = "publicKey"
                 THEN [t EXCEPT !.data.publicKey = change.key]
                 ELSE IF change.field \in {"callbackUrl", "state"}
                 THEN [t EXCEPT !.data = [t.data EXCEPT ![change.field] = change.option]]
                 ELSE [t EXCEPT !.data = [t.data EXCEPT ![change.field] = change.bytes]]
       IN  /\ t2 # t
           /\ token' = Some(t2)
           /\ tampered' = {change.field}
    /\ UNCHANGED <<signedWith, calls, probe, codec>>

ThrowAt(call, failure) == [call EXCEPT !.pc = "done", !.outcome = "error", !.error = failure]

(* verify refusing a nonce that another invocation has already been given *)
VerifyUntilFetch_NonceCache(authTokenString, options, now) ==
    LET c0 == [IdleCall EXCEPT !.authTokenString = authTokenString, !.options = options,
                               !.now = now, !.steps = <<"parse">>]
        parsed == parseAuthToken(c0.authTokenString)
        c1 == [c0 EXCEPT !.tokenData = parsed.data, !.steps = Append(@, "nonce")]
        nonceCheck ==
            IF \E c \in Callers :
                  calls[c].pc # "idle" /\ calls[c].tokenData.nonce = parsed.data.nonce
            THEN Failure("nonce", "Nonce already used", "")
            ELSE NonceStep(options, parsed.data.nonce, now)
        c2 == [c1 EXCEPT !.steps = Append(@, "recipient")]
        recipientCheck == RecipientStep(options, parsed.data.recipient)
        c3 == [c2 EXCEPT !.steps = Append(@, "state")]
        stateCheck == StateStep(options, parsed.data.state)
        requireFullAccessKey == IF IsSome(options.requireFullAccessKey)
                                THEN Get(options.requireFullAccessKey) ELSE TRUE
        c4 == [c3 EXCEPT !.steps = Append(@, "ownership"),
                         !.url = OwnerLookupUrl(parsed.data.accountId,
                                                parsed.data.publicKey,
                                                requireFullAccessKey),
                         !.fetchCalls = @ + 1,
                         !.pc = "fetch"]
    IN  IF ~parsed.ok
        THEN ThrowAt(c0, Failure("parse", "Failed to parse auth token", parsed.error))
        ELSE IF nonceCheck # NoError THEN ThrowAt(c1, nonceCheck)
        ELSE IF recipientCheck # NoError THEN ThrowAt(c2, recipientCheck)
        ELSE IF stateCheck # NoError THEN ThrowAt(c3, stateCheck)
        ELSE c4

(* verify(authTokenString, options) at Date.now() = now, up to its first   *)
(* await: parse, the local checks and the fetch of the ownership lookup   *)
(* (verify.ts 57-149); the value is the invocation's state at that point  *)
VerifyUntilFetch(authTokenString, options, now) ==
    LET c0 == [IdleCall EXCEPT !.authTokenString = authTokenString, !.options = options,
                               !.now = now, !.steps = <<"parse">>]
        parsed == parseAuthToken(c0.authTokenString)
        c1 == [c0 EXCEPT !.tokenData = parsed.data, !.steps = Append(@, "nonce")]
        nonceCheck == NonceStep(options, parsed.data.nonce, now)
        c2 == [c1 EXCEPT !.steps = Append(@, "recipient")]
        recipientCheck == RecipientStep(options, parsed.data.recipient)
        c3 == [c2 EXCEPT !.steps = Append(@, "state")]
        stateCheck == StateStep(options, parsed.data.state)
        requireFullAccessKey == IF IsSome(options.requireFullAccessKey)
                                THEN Get(options.requireFullAccessKey) ELSE TRUE
        c4 == [c3 EXCEPT !.steps = Append(@, "ownership"),
                         !.url = OwnerLookupUrl(parsed.data.accountId,
                                                parsed.data.publicKey,
                                                requireFullAccessKey),
                         !.fetchCalls = @ + 1,
                         !.pc = "fetch"]
    IN  IF ~parsed.ok
        THEN ThrowAt(c0, Failure("parse", "Failed to parse auth token", parsed.error))
        ELSE IF nonceCheck # NoError THEN ThrowAt(c1, nonceCheck)
        ELSE IF recipientCheck # NoError THEN ThrowAt(c2, recipientCheck)
        ELSE IF stateCheck # NoError THEN ThrowAt(c3, stateCheck)
        ELSE c4

(* a caller invokes verify(authTokenString, options) on the token in transit *)
VerifyCall(c, optionsSet, times) ==
    /\ IsSome(token)
    /\ calls[c].pc = "idle"
    /\ \E options \in optionsSet, now \in times :
          calls' = [calls EXCEPT ![c] = VerifyUntilFetch(Get(token), options, now)]
    /\ UNCHANGED <<token, signedWith, tampered, probe, codec>>

(* verify fetching once more after a network error *)
AfterFetch_Retry(call0, response) ==
    LET call == [call0 EXCEPT !.response = response]
        ownerCheckResult == OwnerCheckResult(call.tokenData.accountId, response)
        reason == IF ownerCheckResult.apiFailure
                  THEN "API error or unexpected response during public key ownership check"
                  ELSE "public key not associated with the account or does not meet access key requirements"
        payloadForVerification == PayloadForVerification(call.tokenData, call.options)
        c5 == [call EXCEPT !.steps = Append(@, "signature"),
                           !.hashCalls = @ + 1,
                           !.bytesHashed = Some(BytesToHash(TAG, payloadForVerification))]
        payloadHash == hashForSigning(TAG, payloadForVerification)
        signatureB64 == call.tokenData.signature
        c6 == [c5 EXCEPT !.verifySignatureCalls = @ + 1]
        verdict == verifySignature(payloadHash, signatureB64.raw, call.tokenData.publicKey)
        c7 == [c6 EXCEPT !.steps = Append(@, "parseMessage")]
        parsedMessage == ParseMessage(call.options, call.tokenData.message)
    IN  IF response.kind = "networkError" /\ call0.fetchCalls < 2
        THEN [call EXCEPT !.fetchCalls = @ + 1]
        ELSE IF ~ownerCheckResult.success
        THEN ThrowAt(call, Failure("ownership", "Public key ownership verification failed", reason))
        ELSE IF ~signatureB64.okB64
        THEN ThrowAt(c5, Failure("signature", "InvalidCharacterError", ""))
        ELSE IF verdict # "ok"
        THEN ThrowAt(c6, Failure("signature", "Cryptographic signature verification failed", verdict))
        ELSE IF ~parsedMessage.ok
        THEN ThrowAt(c7, Failure("parseMessage", "Failed to parse message using custom parser", ""))
        ELSE [c7 EXCEPT !.pc = "done", !.outcome = "result",
                        !.result = VerificationResult(call.tokenData, parsedMessage.value)]

(* verify never settling once the fetch has failed *)
AfterFetch_Hang(call0, response) ==
    LET call == [call0 EXCEPT !.response = response]
        ownerCheckResult == OwnerCheckResult(call.tokenData.accountId, response)
        reason == IF ownerCheckResult.apiFailure
                  THEN "API error or unexpected response during public key ownership check"
                  ELSE "public key not associated with the account or does not meet access key requirements"
        payloadForVerification == PayloadForVerification(call.tokenData, call.options)
        c5 == [call EXCEPT !.steps = Append(@, "signature"),
                           !.hashCalls = @ + 1,
                           !.bytesHashed = Some(BytesToHash(TAG, payloadForVerification))]
        payloadHash == hashForSigning(TAG, payloadForVerification)
        signatureB64 == call.tokenData.signature
        c6 == [c5 EXCEPT !.verifySignatureCalls = @ + 1]
        verdict == verifySignature(payloadHash, signatureB64.raw, call.tokenData.publicKey)
        c7 == [c6 EXCEPT !.steps = Append(@, "parseMessage")]
        parsedMessage == ParseMessage(call.options, call.tokenData.message)
    IN  IF response.kind = "networkError"
        THEN [call EXCEPT !.pc = "hung"]
        ELSE IF ~ownerCheckResult.success
        THEN ThrowAt(call, Failure("ownership", "Public key ownership verification failed", reason))
        ELSE IF ~signatureB64.okB64
        THEN ThrowAt(c5, Failure("signature", "InvalidCharacterError", ""))
        ELSE IF verdict # "ok"
        THEN ThrowAt(c6, Failure("signature", "Cryptographic signature verification failed", verdict))
        ELSE IF ~parsedMessage.ok
        THEN ThrowAt(c7, Failure("parseMessage", "Failed to parse message using custom parser", ""))
        ELSE [c7 EXCEPT !.pc = "done", !.outcome = "result",
                        !.result = VerificationResult(call.tokenData, parsedMessage.value)]

(* the rest of verify once the fetch has settled (verify.ts 24-41, 151-216) *)
AfterFetch(call0, response) ==
    LET call == [call0 EXCEPT !.response = response]
        ownerCheckResult == OwnerCheckResult(call.tokenData.accountId, response)
        reason == IF ownerCheckResult.apiFailure
                  THEN "API error or unexpected response during public key ownership check"
                  ELSE "public key not associated with the account or does not meet access key requirements"
        payloadForVerification == PayloadForVerification(call.tokenData, call.options)
        c5 == [call EXCEPT !.steps = Append(@, "signature"),
                           !.hashCalls = @ + 1,
                           !.bytesHashed = Some(BytesToHash(TAG, payloadForVerification))]
        payloadHash == hashForSigning(TAG, payloadForVerification)
        signatureB64 == call.tokenData.signature
        c6 == [c5 EXCEPT !.verifySignatureCalls = @ + 1]
        verdict == verifySignature(payloadHash, signatureB64.raw, call.tokenData.publicKey)
        c7 == [c6 EXCEPT !.steps = Append(@, "parseMessage")]
        parsedMessage == ParseMessage(call.options, call.tokenData.message)
    IN  IF ~ownerCheckResult.success
        THEN ThrowAt(call, Failure("ownership", "Public key ownership verification failed", reason))
        ELSE IF ~signatureB64.okB64
        THEN ThrowAt(c5, Failure("signature", "InvalidCharacterError", ""))
        ELSE IF verdict # "ok"
        THEN ThrowAt(c6, Failure("signature", "Cryptographic signature verification failed", verdict))
        ELSE IF ~parsedMessage.ok
        THEN ThrowAt(c7, Failure("parseMessage", "Failed to parse message using custom parser", ""))
        ELSE [c7 EXCEPT !.pc = "done", !.outcome = "result",
                        !.result = VerificationResult(call.tokenData, parsedMessage.value)]

(* verify(authTokenString, options) run to its end, the fetch settling with *)
(* response: the invocation's final state                                  *)
verify(authTokenString, options, now, response) ==
    LET call == VerifyUntilFetch(authTokenString, options, now)
    IN  IF call.pc = "fetch" THEN AfterFetch(call, response) ELSE call

FetchSettle(c) ==
    /\ calls[c].pc = "fetch"
    /\ \E response \in Responses(calls[c].url) :
          calls' = [calls EXCEPT ![c] = AfterFetch(calls[c], response)]
    /\ UNCHANGED <<token, signedWith, tampered, probe, codec>>

(* the caller has taken the outcome; the invocation leaves nothing behind *)
Return(c) ==
    /\ calls[c].pc = "done"
    /\ calls' = [calls EXCEPT ![c] = IdleCall]
    /\ UNCHANGED <<token, signedWith, tampered, probe, codec>>

(* validateNonce(nonce, maxAge) called on its own at Date.now() = probe.now *)
ValidateNonceProbe ==
    /\ probe.result = "none"
    /\ probe.nonce # <<>>
    /\ probe' = [probe EXCEPT !.result = validateNonce(probe.nonce, probe.maxAge, probe.now)]
    /\ UNCHANGED <<token, signedWith, tampered, calls, codec>>

(* createAuthToken(authData) applied to the record drawn *)
Encode ==
    /\ codec.stage = "record"
    /\ codec' = [codec EXCEPT !.stage = "encoded",
                              !.authToken = CreateAuthToken(codec.record)]
    /\ UNCHANGED <<token, signedWith, tampered, calls, probe>>

(* the token string is cut short, or a character that is not base64 gets in *)
Corrupt ==
    /\ codec.stage = "encoded"
    /\ \E cut \in 0..Len(codec.authToken.bytes) :
          codec' = [codec EXCEPT
                       !.stage = "inTransit",
                       !.corrupted = TRUE,
                       !.authToken =
                           IF cut = Len(codec.authToken.bytes)
                           THEN [codec.authToken EXCEPT !.okB64 = FALSE]
                           ELSE base64Encode(SubSeq(codec.authToken.bytes, 1, cut))]
    /\ UNCHANGED <<token, signedWith, tampered, calls, probe>>

(* parseAuthToken(authToken) applied to the token string *)
Decode ==
    /\ codec.stage \in {"encoded", "inTransit"}
    /\ codec' = [codec EXCEPT !.stage = "parsed", !.parsed = ParseAuthToken(codec.authToken)]
    /\ UNCHANGED <<token, signedWith, tampered, calls, probe>>

(* the token string of the codec as verify is handed it: whether it is   *)
(* base64, and whether its bytes deserialize                             *)
AsAuthTokenString(authToken) ==
    [ okB64 |-> authToken.okB64,
      okBorsh |-> NearAuthDataDeserialize(authToken.bytes).ok,
      data |-> EmptyAuthData ]

(* a caller invokes verify(authTokenString, options) on a token string   *)
(* that parseAuthToken does not decode                                   *)
VerifyUndecodable(c, optionsSet, times) ==
    /\ codec.stage \in {"inTransit", "parsed"}
    /\ ~ParseAuthToken(codec.authToken).ok
    /\ calls[c].pc = "idle"
    /\ \E options \in optionsSet, now \in times :
          calls' = [calls EXCEPT
                       ![c] = VerifyUntilFetch(AsAuthTokenString(codec.authToken),
                                               options, now)]
    /\ UNCHANGED <<token, signedWith, tampered, probe, codec>>

(* ------------------------------------------------------------------ *)
(* Inputs                                                              *)
(* ------------------------------------------------------------------ *)
App == <<97, 112, 112>>

Other == <<120>>

Hi == <<104, 105>>

Yo == <<121, 111>>

Cb == <<99, 98>>

St == <<115, 116>>

Zz == <<122, 122>>

(* clock readings around a token signed at T0: 1 ms before, the same    *)
(* instant, DEFAULT_MAX_AGE later and 1 ms after that                    *)
T0 == 100000000

Times == {T0 - 1, T0, T0 + DEFAULT_MAX_AGE, T0 + DEFAULT_MAX_AGE + 1}

RandomBytes == [i \in 1..(NONCE_LENGTH - TIMESTAMP_LENGTH) |-> 7]

MaxOptionsSet == 2

OptionValues ==
    [ validateNonce |-> Predicates,
      nonceMaxAge |-> {0, DEFAULT_MAX_AGE + 1},
      expectedRecipient |-> {<<>>, App, Other},
      validateRecipient |-> Predicates,
      expectedState |-> {<<>>, St, Zz},
      validateState |-> Predicates,
      expectedMessage |-> {<<>>, Hi, Yo},
      validateMessage |-> Predicates,
      requireFullAccessKey |-> BOOLEAN,
      messageParser |-> Parsers ]

(* the options objects obtained from o by setting one more field *)
OneMoreSet(o) ==
    UNION { { [o EXCEPT ![f] = Some(v)] : v \in OptionValues[f] } :
              f \in { g \in DOMAIN OptionValues : o[g] = None } }

RECURSIVE OptionsWith(_)
(* the options objects in which at most n fields are set *)
OptionsWith(n) ==
    IF n = 0 THEN {NoOptions}
    ELSE LET fewer == OptionsWith(n - 1)
         IN  fewer \cup UNION { OneMoreSet(o) : o \in fewer }

VerifyOptionsSet == OptionsWith(MaxOptionsSet)

KeyPair(seed) == [kind |-> "keypair", seed |-> seed, account |-> <<>>]

Wallet(seed, accountId) == [kind |-> "wallet", seed |-> seed, account |-> accountId]

(* sign() inputs of the pipeline specification: a full-access key and a   *)
(* function-call key of a.near                                            *)
SignOptionsSet ==
    [ signer : {KeyPair("S1"), KeyPair("S2")},
      accountId : {Some(AliceNear)},
      recipient : {App},
      message : {Hi},
      callbackUrl : {None},
      nonce : {None} ]

(* alterations of a token in transit: of its signature, of a byte string *)
(* field, of an optional field                                           *)
ChangeSignature(signatureB64) ==
    [field |-> "signature", signature |-> signatureB64, bytes |-> <<>>, option |-> None,
     key |-> MalformedKey]

ChangeBytes(name, value) ==
    [field |-> name, signature |-> MalformedBase64, bytes |-> value, option |-> None,
     key |-> MalformedKey]

ChangeOption(name, value) ==
    [field |-> name, signature |-> MalformedBase64, bytes |-> <<>>, option |-> value,
     key |-> MalformedKey]

ChangeKey(publicKey) ==
    [field |-> "publicKey", signature |-> MalformedBase64, bytes |-> <<>>, option |-> None,
     key |-> publicKey]

Changes ==
    { ChangeSignature(Base64Of(GarbageSignature)),
      ChangeOption("state", Some(St)) }

(* sign() inputs of the transit specification: key pairs and a wallet,    *)
(* with and without a callbackUrl                                         *)
TransitSignOptionsSet ==
    [ signer : {KeyPair("S1"), Wallet("S1", AliceNear)},
      accountId : {Some(AliceNear)},
      recipient : {App},
      message : {Hi},
      callbackUrl : {None, Some(Cb), Some(<<>>)},
      nonce : {None} ]
    \cup
    [ signer : {KeyPair("S1")},
      accountId : {Some(BobTestnet), Some(TestnetInside)},
      recipient : {App},
      message : {Hi},
      callbackUrl : {None},
      nonce : {None} ]

TransitChanges ==
    { ChangeSignature(Base64Of(GarbageSignature)),
      ChangeSignature(MalformedBase64),
      ChangeBytes("message", Yo),
      ChangeBytes("nonce", generateNonce(T0 + 1, RandomBytes)),
      ChangeBytes("recipient", Other),
      ChangeOption("callbackUrl", None),
      ChangeOption("callbackUrl", Some(<<>>)),
      ChangeOption("callbackUrl", Some(Cb)),
      ChangeOption("callbackUrl", Some(Other)),
      ChangeOption("state", Some(St)),
      ChangeOption("state", Some(<<>>)),
      ChangeKey(Secp256k1Key),
      ChangeKey(MalformedKey) }

TransitOptionsSet == OptionsWith(1)

TransitTimes == {T0, T0 + 1}

(* inputs of the concurrent specification *)
ConcurrentSignOptionsSet == { o \in TransitSignOptionsSet : o.signer = KeyPair("S1") }

ConcurrentOptionsSet == OptionsWith(1)

(* the instant of signing and DEFAULT_MAX_AGE later *)
ConcurrentTimes == {T0, T0 + DEFAULT_MAX_AGE}

(* inputs of validateNonce applied on its own: small timestamps and clock *)
(* readings, and clock readings DEFAULT_MAX_AGE and 1 ms more after them  *)
MaxClock == 3

NonceProbes ==
    { [ts |-> ts, nonce |-> generateNonce(ts, RandomBytes), maxAge |-> maxAge,
       now |-> now, result |-> "none"] :
        ts \in 0..MaxClock,
        maxAge \in {None} \cup { Some(m) : m \in 0..MaxClock },
        now \in (0..MaxClock) \cup {DEFAULT_MAX_AGE + MaxClock, DEFAULT_MAX_AGE + MaxClock + 1} }

(* timestamp segments that are not 16 decimal digits: "abcdefghijklmnop", *)
(* 16 NUL bytes, "000000000000001x", "00000000000000-1",                  *)
(* "-000000000000001" and "              12"                              *)
MalformedTimestamps ==
    { [i \in 1..TIMESTAMP_LENGTH |-> 96 + i],
      [i \in 1..TIMESTAMP_LENGTH |-> 0],
      [i \in 1..TIMESTAMP_LENGTH |-> IF i = 16 THEN 120 ELSE IF i = 15 THEN 49 ELSE 48],
      [i \in 1..TIMESTAMP_LENGTH |-> IF i = 16 THEN 49 ELSE IF i = 15 THEN 45 ELSE 48],
      [i \in 1..TIMESTAMP_LENGTH |-> IF i = 16 THEN 49 ELSE IF i = 1 THEN 45 ELSE 48],
      [i \in 1..TIMESTAMP_LENGTH |-> IF i = 16 THEN 50 ELSE IF i = 15 THEN 49 ELSE 32] }

(* inputs of validateNonce applied to nonces with such a timestamp segment *)
MalformedNonceProbes ==
    { [ts |-> 0, nonce |-> text \o RandomBytes, maxAge |-> maxAge,
       now |-> now, result |-> "none"] :
        text \in MalformedTimestamps,
        maxAge \in {None} \cup { Some(m) : m \in 0..MaxClock },
        now \in (0..MaxClock) \cup {DEFAULT_MAX_AGE + MaxClock, DEFAULT_MAX_AGE + MaxClock + 1} }

(* records handed to the token codec *)
TokenRecords ==
    [ accountId : {AliceNear, <<>>},
      publicKey : {<<112, 107>>},
      signature : {<<115, 105, 103>>},
      message : {Hi, <<>>},
      nonce : {generateNonce(T0, RandomBytes)},
      recipient : {App},
      callbackUrl : {None, Some(<<>>), Some(Cb)},
      state : {None, Some(<<>>), Some(St)} ]

(* options of a verify on an undecodable token string: none, a nonce    *)
(* predicate, an expected recipient                                      *)
CodecOptionsSet ==
    { NoOptions,
      [NoOptions EXCEPT !.validateNonce = Some("acceptAll")],
      [NoOptions EXCEPT !.expectedRecipient = Some(App)] }

(* ------------------------------------------------------------------ *)
(* Specifications                                                      *)
(* ------------------------------------------------------------------ *)
(* the pipeline: one verifier, every combination of up to MaxOptionsSet options *)
Next ==
    \/ Sign(SignOptionsSet, T0, RandomBytes)
    \/ Tamper(Changes)
    \/ VerifyCall("v1", VerifyOptionsSet, Times)
    \/ FetchSettle("v1")
    \/ Return("v1")

Spec == Init /\ [][Next]_vars

(* transit: many tokens and alterations, one verifier, few options *)
NextTransit ==
    \/ Sign(TransitSignOptionsSet, T0, RandomBytes)
    \/ Tamper(TransitChanges)
    \/ VerifyCall("v1", TransitOptionsSet, TransitTimes)
    \/ FetchSettle("v1")
    \/ Return("v1")

SpecTransit == Init /\ [][NextTransit]_vars

(* transit, with a fetch that settles: it resolves or it rejects *)
SpecSettles == Init /\ [][NextTransit]_vars /\ WF_vars(FetchSettle("v1"))

(* two verifiers checking the same token at the same time *)
NextConcurrent ==
    \/ Sign(ConcurrentSignOptionsSet, T0, RandomBytes)
    \/ \E c \in Callers : VerifyCall(c, ConcurrentOptionsSet, ConcurrentTimes)
    \/ \E c \in Callers : FetchSettle(c)
    \/ \E c \in Callers : Return(c)

SpecConcurrent == Init /\ [][NextConcurrent]_vars

(* validateNonce applied to one drawn input *)
InitNonce ==
    /\ token = None
    /\ signedWith = None
    /\ tampered = {}
    /\ calls = [c \in Callers |-> IdleCall]
    /\ probe \in NonceProbes
    /\ codec = NoCodec

NextNonce == ValidateNonceProbe

SpecNonce == InitNonce /\ [][NextNonce]_vars

(* validateNonce applied to one drawn nonce whose timestamp is malformed *)
InitTimestamp ==
    /\ token = None
    /\ signedWith = None
    /\ tampered = {}
    /\ calls = [c \in Callers |-> IdleCall]
    /\ probe \in MalformedNonceProbes
    /\ codec = NoCodec

NextTimestamp == ValidateNonceProbe

SpecTimestamp == InitTimestamp /\ [][NextTimestamp]_vars

(* the token codec applied to one drawn record *)
InitCodec ==
    /\ token = None
    /\ signedWith = None
    /\ tampered = {}
    /\ calls = [c \in Callers |-> IdleCall]
    /\ probe = NoProbe
    /\ codec \in { [NoCodec EXCEPT !.stage = "record", !.record = r] : r \in TokenRecords }

NextCodec ==
    \/ Encode
    \/ Corrupt
    \/ Decode
    \/ VerifyUndecodable("v1", CodecOptionsSet, {T0})
    \/ Return("v1")

SpecCodec == InitCodec /\ [][NextCodec]_vars

(* ------------------------------------------------------------------ *)
(* What the pipeline is required to do, stated on a verify invocation   *)
(* ------------------------------------------------------------------ *)
PipelineOrder ==
    <<"parse", "nonce", "recipient", "state", "message", "ownership", "signature">>

Position(step) == CHOOSE i \in 1..Len(PipelineOrder) : PipelineOrder[i] = step

Started(call) == call.pc # "idle"

Done(call) == call.pc = "done"

Decodes(call) == call.authTokenString.okB64 /\ call.authTokenString.okBorsh

(* the timestamp a nonce produced by sign() carries is sign()'s clock reading *)
SignedAt == Get(signedWith).now

NonceFresh(call) ==
    LET maxAge == IF IsSome(call.options.nonceMaxAge)
                  THEN Get(call.options.nonceMaxAge) ELSE DEFAULT_MAX_AGE
        age == call.now - SignedAt
    IN  0 <= age /\ age <= maxAge

NonceRejects(call) ==
    IF IsSome(call.options.validateNonce)
    THEN ~Apply(Get(call.options.validateNonce), call.authTokenString.data.nonce)
    ELSE ~NonceFresh(call)

(* an axis rejects when the one constraint supplied for it does not hold *)
RecipientRejects(call) ==
    LET recipient == call.authTokenString.data.recipient
    IN  \/ IsSome(call.options.expectedRecipient) /\ ~IsSome(call.options.validateRecipient)
           /\ recipient # Get(call.options.expectedRecipient)
        \/ IsSome(call.options.validateRecipient) /\ ~IsSome(call.options.expectedRecipient)
           /\ ~Apply(Get(call.options.validateRecipient), recipient)

StateRejects(call) ==
    LET state == call.authTokenString.data.state
    IN  \/ IsSome(call.options.expectedState) /\ ~IsSome(call.options.validateState)
           /\ state # call.options.expectedState
        \/ IsSome(call.options.validateState) /\ ~IsSome(call.options.expectedState)
           /\ ~Apply(Get(call.options.validateState), state)

MessageRejects(call) ==
    LET message == call.authTokenString.data.message
    IN  \/ IsSome(call.options.expectedMessage) /\ ~IsSome(call.options.validateMessage)
           /\ message # Get(call.options.expectedMessage)
        \/ IsSome(call.options.validateMessage) /\ ~IsSome(call.options.expectedMessage)
           /\ ~Apply(Get(call.options.validateMessage), message)

OwnershipConfirmed(call) ==
    /\ call.response.kind = "accountIds"
    /\ call.authTokenString.data.accountId \in call.response.account_ids

(* the token's signature is a signature, by the token's public key, of the *)
(* hash of the token's own message, nonce, recipient and callbackUrl       *)
SignatureValid(call) ==
    LET d == call.authTokenString.data
    IN  /\ d.signature.okB64
        /\ d.publicKey.prefix = ED25519_PREFIX
        /\ d.signature.raw.signer = d.publicKey.body
        /\ d.signature.raw.over =
              sha256(TAG \o SerializeSignedPayload(
                  [message |-> d.message, nonce |-> d.nonce,
                   recipient |-> d.recipient, callbackUrl |-> d.callbackUrl]))

(* the steps of PipelineOrder this invocation's token and options fail *)
FailingSteps(call) ==
    IF ~Decodes(call) THEN {"parse"}
    ELSE (IF NonceRejects(call) THEN {"nonce"} ELSE {})
         \cup (IF RecipientRejects(call) THEN {"recipient"} ELSE {})
         \cup (IF StateRejects(call) THEN {"state"} ELSE {})
         \cup (IF MessageRejects(call) THEN {"message"} ELSE {})
         \cup (IF call.fetchCalls > 0 /\ call.pc = "done" /\ ~OwnershipConfirmed(call)
               THEN {"ownership"} ELSE {})
         \cup (IF ~SignatureValid(call) THEN {"signature"} ELSE {})

(* options as the specification admits them: per axis, an exact value or *)
(* a predicate, not both                                                 *)
BothSet(options) ==
    \/ IsSome(options.nonceMaxAge) /\ IsSome(options.validateNonce)
    \/ IsSome(options.expectedRecipient) /\ IsSome(options.validateRecipient)
    \/ IsSome(options.expectedState) /\ IsSome(options.validateState)
    \/ IsSome(options.expectedMessage) /\ IsSome(options.validateMessage)

LocalSteps == {"nonce", "recipient", "state", "message"}

FailedAt(call, step) == Done(call) /\ call.outcome = "error" /\ call.error.at = step

(* ------------------------------------------------------------------ *)
(* C1                                                                  *)
(* ------------------------------------------------------------------ *)
(* C1: if a local validation step (nonce, recipient, state or message)   *)
(* rejects the token, verify fails at such a step and the invocation     *)
(* never calls the ownership lookup or the signature engine, even when   *)
(* the token's signature is valid.                                       *)
C1_LocalRejectionStopsBeforeLookup ==
    \A c \in Callers :
        LET call == calls[c]
            rejecting == FailingSteps(call) \cap LocalSteps
        IN  (Started(call) /\ ~BothSet(call.options) /\ Decodes(call) /\ rejecting # {}) =>
                /\ call.fetchCalls = 0
                /\ call.hashCalls = 0
                /\ call.verifySignatureCalls = 0
                /\ call.outcome = "error"
                /\ call.error.at \in rejecting

(* ------------------------------------------------------------------ *)
(* C2                                                                  *)
(* ------------------------------------------------------------------ *)
(* C2: if the ownership lookup does not confirm that the token's public  *)
(* key belongs to the token's account, verify fails with the ownership   *)
(* error and the signature engine is never invoked, whether or not the   *)
(* signature is valid.                                                   *)
C2_UnconfirmedOwnershipStopsBeforeSignature ==
    \A c \in Callers :
        LET call == calls[c]
        IN  /\ (Started(call) /\ ~OwnershipConfirmed(call)) =>
                    call.hashCalls = 0 /\ call.verifySignatureCalls = 0
            /\ (Done(call) /\ call.fetchCalls > 0 /\ ~OwnershipConfirmed(call)) =>
                    /\ call.outcome = "error"
                    /\ call.error.at = "ownership"
                    /\ call.error.text = "Public key ownership verification failed"

(* the lookup did not confirm ownership of a token whose signature is valid *)
C2_Witness ==
    \E c \in Callers :
        /\ Done(calls[c])
        /\ calls[c].fetchCalls > 0
        /\ ~OwnershipConfirmed(calls[c])
        /\ SignatureValid(calls[c])
        /\ calls[c].error.at = "ownership"

(* ------------------------------------------------------------------ *)
(* C3                                                                  *)
(* ------------------------------------------------------------------ *)
(* C3: verify returns a VerificationResult only if, in that invocation,  *)
(* parsing, the nonce check, every recipient, state and message          *)
(* constraint the caller supplied, the ownership lookup and the          *)
(* signature check have all succeeded.                                   *)
C3_ResultOnlyAfterEveryCheck ==
    \A c \in Callers :
        LET call == calls[c]
        IN  (Done(call) /\ ~BothSet(call.options) /\ call.outcome = "result") =>
                /\ FailingSteps(call) = {}
                /\ call.fetchCalls = 1
                /\ OwnershipConfirmed(call)
                /\ call.verifySignatureCalls = 1

(* ------------------------------------------------------------------ *)
(* C4                                                                  *)
(* ------------------------------------------------------------------ *)
(* C4: the steps run in the order parse, nonce, recipient, state,        *)
(* message, ownership, signature; a step is started only after every     *)
(* earlier step succeeded, and a token failing several steps is reported *)
(* with the error of the earliest failing step.                          *)
C4_EarliestFailingStepReported ==
    \A c \in Callers :
        LET call == calls[c]
            failing == FailingSteps(call)
            startedSteps == { call.steps[i] : i \in 1..Len(call.steps) }
                               \cap { PipelineOrder[i] : i \in 1..Len(PipelineOrder) }
        IN  ~BothSet(call.options) =>
              /\ \A step \in startedSteps :
                    \A earlier \in failing : Position(earlier) >= Position(step)
              /\ (Done(call) /\ call.outcome = "error" /\ call.error.at # "parseMessage") =>
                    /\ call.error.at \in failing
                    /\ \A earlier \in failing : Position(earlier) >= Position(call.error.at)

(* ------------------------------------------------------------------ *)
(* C9                                                                  *)
(* ------------------------------------------------------------------ *)
(* C9: the nonce step applies the caller's predicate or the default      *)
(* freshness check, never both: with a predicate the token passes the    *)
(* step exactly when the predicate returns true, and false fails with    *)
(* "Custom nonce validation failed."; without one the token passes       *)
(* exactly when the nonce is fresh under the caller's maxAge (24 hours   *)
(* if none).                                                             *)
C9_PredicateOrDefaultNonceCheck ==
    \A c \in Callers :
        LET call == calls[c]
            failedAtNonce == FailedAt(call, "nonce")
        IN  (Started(call) /\ Decodes(call)) =>
                IF IsSome(call.options.validateNonce)
                THEN /\ failedAtNonce <=>
                            ~Apply(Get(call.options.validateNonce), call.tokenData.nonce)
                     /\ failedAtNonce => call.error.text = "Custom nonce validation failed."
                ELSE /\ failedAtNonce <=> ~NonceFresh(call)
                     /\ failedAtNonce => call.error.text = "Default nonce validation failed"

(* an accepting predicate let a nonce pass that the default check rejects *)
C9_Witness ==
    \E c \in Callers :
        /\ Started(calls[c])
        /\ calls[c].options.validateNonce = Some("acceptAll")
        /\ validateNonce(calls[c].tokenData.nonce, calls[c].options.nonceMaxAge,
                         calls[c].now) # "ok"
        /\ calls[c].fetchCalls = 1

(* ------------------------------------------------------------------ *)
(* C10                                                                 *)
(* ------------------------------------------------------------------ *)
(* C10: options that set both the exact value and the predicate of one   *)
(* axis are rejected with a configuration error before any verification  *)
(* step is applied to a token.                                           *)
C10_BothSetOptionsRejected ==
    \A c \in Callers :
        (Started(calls[c]) /\ BothSet(calls[c].options)) =>
            /\ calls[c].steps = <<>>
            /\ calls[c].outcome = "error"
            /\ calls[c].error.at = "config"

(* ------------------------------------------------------------------ *)
(* C5                                                                  *)
(* ------------------------------------------------------------------ *)
(* C5: the bytes hashed at the signature step are rebuilt from the       *)
(* decoded token alone: two invocations on the same token hash the same  *)
(* bytes whatever options each was given.                                *)
C5_HashedBytesDependOnTokenOnly ==
    \A c1, c2 \in Callers :
        ( /\ IsSome(calls[c1].bytesHashed)
          /\ IsSome(calls[c2].bytesHashed)
          /\ calls[c1].authTokenString = calls[c2].authTokenString ) =>
            calls[c1].bytesHashed = calls[c2].bytesHashed

(* two invocations with different options both reached the signature step *)
C5_Witness ==
    \E c1, c2 \in Callers :
        /\ IsSome(calls[c1].bytesHashed)
        /\ IsSome(calls[c2].bytesHashed)
        /\ calls[c1].authTokenString = calls[c2].authTokenString
        /\ calls[c1].options # calls[c2].options
        /\ calls[c1].options.expectedMessage # calls[c2].options.expectedMessage

(* ------------------------------------------------------------------ *)
(* C6                                                                  *)
(* ------------------------------------------------------------------ *)
(* the token as sign() produced it *)
OriginalToken ==
    sign(Get(signedWith).options, Get(signedWith).now, RandomBytes).token

SignerAccount ==
    IF Get(signedWith).options.signer.kind = "wallet"
    THEN Get(signedWith).options.signer.account
    ELSE Get(Get(signedWith).options.accountId)

(* C6: round trip: a token signed with a key the ownership oracle        *)
(* associates with the account, verified unaltered under options it      *)
(* matches, yields a VerificationResult whose accountId, publicKey,      *)
(* message and callbackUrl are the signed inputs.                        *)
C6_RoundTrip ==
    \A c \in Callers :
        LET call == calls[c]
        IN  ( /\ Done(call)
              /\ tampered = {}
              /\ ~BothSet(call.options)
              /\ FailingSteps(call) \cap LocalSteps = {}
              /\ call.options.messageParser # Some("throws")
              /\ OwnershipConfirmed(call) ) =>
                /\ call.outcome = "result"
                /\ call.result.accountId = SignerAccount
                /\ call.result.publicKey = PublicKeyString(Get(signedWith).options.signer.seed)
                /\ call.result.message.text = Get(signedWith).options.message
                /\ call.result.callbackUrl = Get(signedWith).options.callbackUrl

(* ------------------------------------------------------------------ *)
(* C7                                                                  *)
(* ------------------------------------------------------------------ *)
SignedFields == {"signature", "message", "nonce", "recipient", "callbackUrl"}

(* C7: once the signature, message, nonce, recipient or callbackUrl of a *)
(* token that verifies has been changed, verification never succeeds: it *)
(* fails at a local validation step or at the signature step.            *)
C7_TamperedTokenNeverVerifies ==
    \A c \in Callers :
        LET call == calls[c]
        IN  ( /\ Done(call)
              /\ tampered \cap SignedFields # {}
              /\ SignatureValid([authTokenString |-> OriginalToken]) ) =>
                /\ call.outcome = "error"
                /\ OwnershipConfirmed(call) => call.error.at \in LocalSteps \cup {"signature"}

(* ------------------------------------------------------------------ *)
(* C8                                                                  *)
(* ------------------------------------------------------------------ *)
(* C8: for a 32-byte nonce whose leading 16 bytes encode ts,             *)
(* validateNonce(nonce, maxAge) at time now accepts exactly when         *)
(* 0 <= now - ts <= maxAge (24 hours if maxAge is not given); older      *)
(* nonces are rejected as expired, and ts > now as a future timestamp    *)
(* whatever maxAge is.                                                   *)
C8_AcceptsExactlyWithinMaxAge ==
    LET maxAge == IF IsSome(probe.maxAge) THEN Get(probe.maxAge) ELSE 24 * 60 * 60 * 1000
        age == probe.now - probe.ts
    IN  (probe.result # "none" /\ Len(probe.nonce) = 32) =>
            /\ probe.result = "ok" <=> (0 <= age /\ age <= maxAge)
            /\ age > maxAge => probe.result = "Nonce has expired"
            /\ age < 0 => probe.result = "Nonce timestamp is in the future"

(* ------------------------------------------------------------------ *)
(* C11                                                                 *)
(* ------------------------------------------------------------------ *)
ApiFailureKinds == {"networkError", "httpError", "badJson", "badShape"}

StepsOf(call) == { call.steps[i] : i \in 1..Len(call.steps) }

(* C11: the ownership step succeeds exactly when the lookup returns a    *)
(* well-formed response listing the token's accountId; a transport       *)
(* failure, non-success status, malformed JSON or unexpected shape fails *)
(* with the "API error or unexpected response" reason, and a well-formed *)
(* response not listing the account with the distinct "not associated"   *)
(* reason.                                                               *)
C11_OwnershipOutcomes ==
    \A c \in Callers :
        LET call == calls[c]
            listed == call.authTokenString.data.accountId \in call.response.account_ids
        IN  (Done(call) /\ call.fetchCalls > 0) =>
                /\ ("signature" \in StepsOf(call)) <=>
                       (call.response.kind = "accountIds" /\ listed)
                /\ call.response.kind \in ApiFailureKinds =>
                       /\ FailedAt(call, "ownership")
                       /\ call.error.reason =
                             "API error or unexpected response during public key ownership check"
                /\ (call.response.kind = "accountIds" /\ ~listed) =>
                       /\ FailedAt(call, "ownership")
                       /\ call.error.reason =
                             "public key not associated with the account or does not meet access key requirements"

(* a well-formed response did not list the account *)
C11_Witness ==
    \E c \in Callers :
        /\ Done(calls[c])
        /\ calls[c].response.kind = "accountIds"
        /\ calls[c].authTokenString.data.accountId \notin calls[c].response.account_ids
        /\ calls[c].error.reason =
              "public key not associated with the account or does not meet access key requirements"

(* ------------------------------------------------------------------ *)
(* C12                                                                 *)
(* ------------------------------------------------------------------ *)
(* C12: the lookup asks for keys of any access level (suffix "/all")     *)
(* exactly when requireFullAccessKey is false, and for full-access keys  *)
(* (no suffix) otherwise, an omitted requireFullAccessKey counting as    *)
(* true: a function-call key is rejected by default.                     *)
C12_AllSuffixOnlyWhenNotRequired ==
    \A c \in Callers :
        LET call == calls[c]
        IN  /\ call.fetchCalls > 0 =>
                  call.url.pathSuffix =
                      IF call.options.requireFullAccessKey = Some(FALSE) THEN "/all" ELSE ""
            /\ ( /\ Done(call)
                 /\ call.fetchCalls > 0
                 /\ call.authTokenString.data.publicKey = PublicKeyString("S2")
                 /\ call.options.requireFullAccessKey = None
                 /\ call.response.kind = "accountIds" ) =>
                  FailedAt(call, "ownership")

(* a function-call key was looked up with requireFullAccessKey omitted *)
C12_Witness ==
    \E c \in Callers :
        /\ Done(calls[c])
        /\ calls[c].authTokenString.data.publicKey = PublicKeyString("S2")
        /\ calls[c].options.requireFullAccessKey = None
        /\ calls[c].response.kind = "accountIds"
        /\ calls[c].url.pathSuffix = ""
        /\ FailedAt(calls[c], "ownership")

(* ------------------------------------------------------------------ *)
(* C13                                                                 *)
(* ------------------------------------------------------------------ *)
HasTestnetSuffix(accountId) ==
    \E k \in 0..Len(accountId) :
        accountId = SubSeq(accountId, 1, k) \o <<46, 116, 101, 115, 116, 110, 101, 116>>

C14_AtMostOneLookup ==
    \A c \in Callers :
        /\ calls[c].fetchCalls <= 1
        /\ calls[c].response.kind \in ApiFailureKinds =>
              /\ FailedAt(calls[c], "ownership")
              /\ calls[c].fetchCalls = 1

(* a lookup failed in transport *)
C14_Witness ==
    \E c \in Callers :
        /\ calls[c].response.kind = "networkError"
        /\ calls[c].fetchCalls = 1
        /\ FailedAt(calls[c], "ownership")

(* ------------------------------------------------------------------ *)
(* C15                                                                 *)
(* ------------------------------------------------------------------ *)
(* C15: when expectedRecipient is supplied and differs from the token's  *)
(* recipient, verify fails at the recipient step with an error naming    *)
(* the expected and the actual recipient; when it equals the token's     *)
(* recipient the recipient step passes.                                  *)
C15_ExpectedRecipientEnforced ==
    \A c \in Callers :
        LET call == calls[c]
            recipient == call.authTokenString.data.recipient
        IN  ( /\ "recipient" \in StepsOf(call)
              /\ ~BothSet(call.options)
              /\ IsSome(call.options.expectedRecipient) ) =>
                IF Get(call.options.expectedRecipient) # recipient
                THEN /\ FailedAt(call, "recipient")
                     /\ call.error.expected = Get(call.options.expectedRecipient)
                     /\ call.error.actual = recipient
                ELSE ~FailedAt(call, "recipient")

(* ------------------------------------------------------------------ *)
(* C16                                                                 *)
(* ------------------------------------------------------------------ *)
(* C16: the state step is enforced only if the caller supplied           *)
(* expectedState or a state predicate; when enforced, a token without    *)
(* state equals no expected string, not even the empty one, and the      *)
(* mismatch error names the expected side and the actual side            *)
(* ("undefined" for a token without state).                              *)
C16_StateStepEnforcement ==
    \A c \in Callers :
        LET call == calls[c]
            state == call.authTokenString.data.state
            expectedState == call.options.expectedState
        IN  ("state" \in StepsOf(call) /\ ~BothSet(call.options)) =>
                /\ (expectedState = None /\ call.options.validateState = None) =>
                        ~FailedAt(call, "state")
                /\ (IsSome(expectedState) /\ state # expectedState) =>
                        /\ FailedAt(call, "state")
                        /\ call.error.expected = Get(expectedState)
                        /\ call.error.actual =
                              IF IsSome(state) THEN Get(state) ELSE Undefined
                /\ (IsSome(expectedState) /\ state = expectedState) =>
                        ~FailedAt(call, "state")

(* ------------------------------------------------------------------ *)
(* C17                                                                 *)
(* ------------------------------------------------------------------ *)
(* C17: with expectedMessage supplied (the empty string included) verify *)
(* succeeds only if the token's message equals it, any other message     *)
(* failing at the message step before the ownership lookup; with a       *)
(* message predicate the step passes exactly when the predicate accepts. *)
C17_MessageConstraintEnforced ==
    \A c \in Callers :
        LET call == calls[c]
        IN  (Started(call) /\ Decodes(call) /\ ~BothSet(call.options)) =>
                /\ call.fetchCalls > 0 => ~MessageRejects(call)
                /\ call.outcome = "result" => ~MessageRejects(call)
                /\ ( /\ Done(call)
                     /\ MessageRejects(call)
                     /\ call.error.at \notin {"nonce", "recipient", "state"} ) =>
                        FailedAt(call, "message")

StateValues == {None, Some(St), Some(<<>>)}

(* the invocation as it would have run on the same token carrying state s *)
WithState(call, s) ==
    verify([call.authTokenString EXCEPT !.data.state = s],
           call.options, call.now, call.response)

(* C19: the state field is not covered by the signature: tokens that     *)
(* differ only in state have the same outcome at the signature step, and *)
(* their verifications differ only through the state step, when the      *)
(* caller supplied a state option.                                       *)
C19_StateNotSigned ==
    \A c \in Callers :
        LET call == calls[c]
        IN  Done(call) =>
              \A s \in StateValues :
                LET other == WithState(call, s)
                IN  /\ ("signature" \in StepsOf(call) /\ "signature" \in StepsOf(other)) =>
                          /\ other.bytesHashed = call.bytesHashed
                          /\ other.verifySignatureCalls = call.verifySignatureCalls
                          /\ FailedAt(other, "signature") <=> FailedAt(call, "signature")
                    /\ (other.outcome # call.outcome \/ other.error # call.error) =>
                          /\ IsSome(call.options.expectedState)
                               \/ IsSome(call.options.validateState)
                          /\ FailedAt(call, "state") \/ FailedAt(other, "state")
                    /\ FailedAt(call, "state") =>
                          IsSome(call.options.expectedState)
                             \/ IsSome(call.options.validateState)

(* a token to which a state was added in transit verified *)
C19_Witness ==
    \E c \in Callers :
        /\ Done(calls[c])
        /\ tampered = {"state"}
        /\ calls[c].authTokenString.data.state = Some(St)
        /\ OriginalToken.data.state = None
        /\ calls[c].outcome = "result"

(* ------------------------------------------------------------------ *)
(* C20                                                                 *)
(* ------------------------------------------------------------------ *)
(* C20: every failure of the signature step (undecodable signature       *)
(* bytes, unsupported key prefix, malformed key, signature mismatch) is  *)
(* thrown as the signature error wrapping the underlying reason, an      *)
(* unsupported key type being a reason distinct from a mismatch.         *)
C20_SignatureFailuresWrapped ==
    \A c \in Callers :
        LET call == calls[c]
            d == call.authTokenString.data
        IN  ( /\ Done(call)
              /\ "signature" \in StepsOf(call)
              /\ "parseMessage" \notin StepsOf(call) ) =>
                /\ call.outcome = "error"
                /\ call.error.at = "signature"
                /\ call.error.text = "Cryptographic signature verification failed"
                /\ call.error.reason # ""
                /\ (call.error.reason = "Unsupported public key type")
                      <=> (d.publicKey.prefix # "ed25519:")

(* ------------------------------------------------------------------ *)
(* C21                                                                 *)
(* ------------------------------------------------------------------ *)
(* the bytes hashed for a payload whose callbackUrl carries its presence *)
(* flag: 0 when absent, 1 and the value when present                     *)
FlaggedBytes(message, nonce, recipient, callbackUrl) ==
    TAG \o SerializeSignedPayload(
        [ message |-> message, nonce |-> nonce, recipient |-> recipient,
          callbackUrl |-> callbackUrl ])

(* C21: an optional field carries an explicit presence flag on both      *)
(* sides: the token sign() produces and the bytes a key pair signs hold  *)
(* the caller's callbackUrl as given (absent as "none", present as       *)
(* "some" with its value, the empty string included), and the bytes      *)
(* verify hashes hold the token's callbackUrl the same way.              *)
C21_ExplicitPresenceFlag ==
    /\ IsSome(signedWith) =>
          LET o == Get(signedWith).options
          IN  /\ OriginalToken.data.callbackUrl = o.callbackUrl
              /\ o.signer.kind = "keypair" =>
                    OriginalToken.data.signature.raw.over =
                        sha256(FlaggedBytes(o.message, OriginalToken.data.nonce,
                                            o.recipient, o.callbackUrl))
    /\ \A c \in Callers :
          LET d == calls[c].authTokenString.data
          IN  IsSome(calls[c].bytesHashed) =>
                 Get(calls[c].bytesHashed) =
                     FlaggedBytes(d.message, d.nonce, d.recipient, d.callbackUrl)

C23_UndecodableInputGivesParseError ==
    /\ codec.stage = "parsed" =>
          \/ codec.parsed.ok
          \/ codec.parsed.error = "Invalid auth token" /\ codec.parsed.cause # ""
    /\ (codec.stage = "parsed" /\ codec.corrupted) => ~codec.parsed.ok
    /\ \A c \in Callers :
          LET call == calls[c]
          IN  (Started(call) /\ ~Decodes(call)) =>
                 /\ FailedAt(call, "parse")
                 /\ call.error.text = "Failed to parse auth token"
                 /\ call.error.reason \in
                       {"Invalid auth token: base64", "Invalid auth token: deserialize"}
                 /\ call.steps = <<"parse">>
                 /\ call.fetchCalls = 0
                 /\ call.hashCalls = 0
                 /\ call.verifySignatureCalls = 0

(* a token string cut short was refused by parseAuthToken and by verify *)
C23_Witness ==
    /\ codec.stage = "parsed"
    /\ codec.corrupted
    /\ codec.authToken.okB64
    /\ codec.parsed.cause = "Offset is outside the bounds of the DataView"
    /\ FailedAt(calls["v1"], "parse")
    /\ calls["v1"].options.expectedRecipient = Some(App)

(* ------------------------------------------------------------------ *)
(* C24                                                                 *)
(* ------------------------------------------------------------------ *)
(* the text is the decimal notation of a non-negative integer *)
IsDecimal(text) == text # <<>> /\ \A i \in 1..Len(text) : IsDigit(text[i])

(* C24: validateNonce fails with "Invalid timestamp in nonce" for every  *)
(* 32-byte nonce whose leading 16 bytes are not the decimal notation of  *)
(* a non-negative integer; such a nonce is never accepted, nor reported  *)
(* as expired or as in the future.                                       *)
C24_MalformedTimestampRejected ==
    ( /\ probe.result # "none"
      /\ Len(probe.nonce) = 32
      /\ ~IsDecimal(SubSeq(probe.nonce, 1, 16)) ) =>
        probe.result = "Invalid timestamp in nonce"

(* ------------------------------------------------------------------ *)
(* C26                                                                 *)
(* ------------------------------------------------------------------ *)
(* C26: a nonce generated at time ts is 32 bytes long, its first 16      *)
(* bytes are decimal digits whose value is ts, its last 16 bytes are the *)
(* random bytes, and validateNonce accepts it at every time at which its *)
(* age is between 0 and maxAge (24 hours if maxAge is not given).        *)
C26_GeneratedNonceValidates ==
    LET maxAge == IF IsSome(probe.maxAge) THEN Get(probe.maxAge) ELSE 24 * 60 * 60 * 1000
        age == probe.now - probe.ts
    IN  probe.nonce # <<>> =>
            /\ Len(probe.nonce) = 32
            /\ IsDecimal(SubSeq(probe.nonce, 1, 16))
            /\ DigitRun(SubSeq(probe.nonce, 1, 16), 0) = probe.ts
            /\ SubSeq(probe.nonce, 17, 32) = RandomBytes
            /\ (probe.result # "none" /\ 0 <= age /\ age <= maxAge) => probe.result = "ok"

(* ------------------------------------------------------------------ *)
(* C27                                                                 *)
(* ------------------------------------------------------------------ *)
(* C27: verification keeps no state across invocations: whatever other   *)
(* invocations run beside it, an invocation is where verify alone would  *)
(* be for its own token, options, clock reading and lookup response; so  *)
(* a token accepted once is accepted again, under the same options with  *)
(* the default nonce check, by every call made while its nonce is within *)
(* maxAge.                                                               *)
C27_InvocationsAreIndependent ==
    /\ \A c \in Callers :
          LET call == calls[c]
          IN  /\ call.pc = "fetch" =>
                    call = VerifyUntilFetch(call.authTokenString, call.options, call.now)
              /\ call.pc = "done" =>
                    call = verify(call.authTokenString, call.options, call.now,
                                  call.response)
    /\ \A c1, c2 \in Callers :
          ( /\ Done(calls[c1]) /\ Done(calls[c2])
            /\ calls[c1].outcome = "result"
            /\ calls[c2].authTokenString = calls[c1].authTokenString
            /\ calls[c2].options = calls[c1].options
            /\ calls[c2].options.validateNonce = None
            /\ calls[c2].response = calls[c1].response
            /\ NonceFresh(calls[c2]) ) =>
                calls[c2].outcome = "result"

(* a token accepted at the instant of signing was accepted again 24 hours *)
(* later, the first result still being held                               *)
C27_Witness ==
    /\ Done(calls["v1"]) /\ Done(calls["v2"])
    /\ calls["v1"].outcome = "result"
    /\ calls["v2"].outcome = "result"
    /\ calls["v1"].now = T0
    /\ calls["v2"].now = T0 + DEFAULT_MAX_AGE
    /\ calls["v2"].options = NoOptions

(* ------------------------------------------------------------------ *)
(* C28                                                                 *)
(* ------------------------------------------------------------------ *)
(* an invocation holds no outcome until it ends, and then exactly one: a  *)
(* result carrying the token's accountId, publicKey and message, or an    *)
(* error and no result                                                    *)
OneOutcome(call) ==
    /\ call.pc \in {"idle", "fetch", "done"}
    /\ call.pc # "done" =>
          call.outcome = "none" /\ call.error = NoError /\ call.result = NoResult
    /\ call.pc = "done" =>
          \/ /\ call.outcome = "result"
             /\ call.error = NoError
             /\ call.result.accountId = call.tokenData.accountId
             /\ call.result.publicKey = call.tokenData.publicKey
             /\ call.result.message.text = call.tokenData.message
          \/ /\ call.outcome = "error"
             /\ call.error # NoError
             /\ call.error.at # ""
             /\ call.result = NoResult
    /\ (call.pc = "done" /\ call.response.kind \in ApiFailureKinds) =>
          FailedAt(call, "ownership")

(* C28: every verify invocation ends with exactly one outcome, a         *)
(* populated VerificationResult or one error, never a partial result;    *)
(* once the ownership lookup has been requested and settles the          *)
(* invocation completes, a failed lookup ending it with the ownership    *)
(* error.                                                                *)
C28_ExactlyOneOutcome ==
    /\ [](\A c \in Callers : OneOutcome(calls[c]))
    /\ \A c \in Callers : (calls[c].pc = "fetch") ~> (calls[c].pc = "done")

(* the lookup failed in transport and the invocation ended with the     *)
(* ownership error                                                       *)
C28_Witness ==
    \E c \in Callers :
        /\ Done(calls[c])
        /\ calls[c].response.kind = "networkError"
        /\ FailedAt(calls[c], "ownership")
        /\ calls[c].result = NoResult

C30_EmptyExpectedValueEnforced ==
    \A c \in Callers :
        LET call == calls[c]
            data == call.authTokenString.data
        IN  ~BothSet(call.options) =>
                /\ ( /\ "recipient" \in StepsOf(call)
                     /\ call.options.expectedRecipient = Some(<<>>)
                     /\ data.recipient # <<>> ) =>
                        FailedAt(call, "recipient")
                /\ ( /\ "state" \in StepsOf(call)
                     /\ call.options.expectedState = Some(<<>>)
                     /\ data.state # Some(<<>>) ) =>
                        FailedAt(call, "state")

====
